---- MODULE Spec2Model ----
(***************************************************************************)
(* A model of the request lifecycle store (src/src/requestStore.ts) and of *)
(* the HTTP client (HttpClient, src/src/controllers/responseController.ts  *)
(* lines 90-410) of vscode-restclient.                                     *)
(***************************************************************************)
EXTENDS Integers, Sequences, FiniteSets, TLC

(***************************************************************************)
(* JavaScript values.  Strings are TLA+ strings; undefined and null are    *)
(* two further values.  Truthy is JavaScript's ToBoolean on the values the *)
(* model uses: undefined, null and the empty string are falsy.             *)
(***************************************************************************)
Undefined == "<undefined>"

Null == "<null>"

Empty == ""

Truthy(v) == v \notin {Undefined, Null, Empty}

\* The request identifiers and the requests the callers pass.
Ids == {"a", "b"}

Requests == {"r1", "r2"}

\* What a caller may pass as requestId / request (the guards of the code
\* read falsy values, so the callers' falsy values are inputs too).
IdArgs == Ids \cup {Empty, Null}

RequestArgs == Requests \cup {Null}

VARIABLES
    cache,                \* RequestStore.cache: Map<string, HttpRequest>
    cancelledRequestIds,  \* RequestStore.cancelledRequestIds: Set<string>
    completedRequestIds,  \* RequestStore.completedRequestIds: Set<string>
    currentRequestId,     \* RequestStore.currentRequestId (undefined at start)
    call,                 \* log: the most recent RequestStore call and its arguments
    lastAdd,              \* log: the arguments of the most recent add call
    lastStored,           \* log: the most recent add call with a truthy id and request
    cancelLog,            \* log: the identifiers cancel was called with, and those that
                          \*      were current when it was called without one
    pc,                   \* where the call of HttpClient.send stands
    httpRequest,          \* the request send was called with
    settings,             \* RestClientSettings.Instance
    options,              \* the options object of prepareOptions
    outcome,              \* what the promise of send settled to
    inflightId,           \* the identifier the caller registered the request under
    wire,                 \* log: what the body stream and the transport delivered
    headersBeforeMerge,   \* log: options.headers when the default-header loop starts
    proxyIgnored,         \* log: whether ignoreProxy was called, and its result
    cancelSeen,           \* log: the phases of the send in which its id was cancelled
    certEnv,              \* the certificate table, the workspace and the file system
    certificate,          \* what getRequestCertificate returned, and the warnings shown
    storedResponse,       \* the response ResponseStore holds for the uri to save
    savedFile             \* the text ResponseController.save wrote

storeVars == <<cache, cancelledRequestIds, completedRequestIds, currentRequestId>>

logVars == <<call, lastAdd, lastStored, cancelLog>>

certVars == <<certEnv, certificate>>

saveVars == <<storedResponse, savedFile>>

clientVars == <<pc, httpRequest, settings, options, outcome, inflightId, wire,
                headersBeforeMerge, proxyIgnored, certVars>>

vars == <<storeVars, logVars, clientVars, cancelSeen, saveVars>>

(***************************************************************************)
(* RequestStore.  The four static fields as one record, and every method   *)
(* as an operator from the store (and the arguments) to the store after    *)
(* the call, or to the value returned.                                     *)
(***************************************************************************)
Store ==
    [cache |-> cache,
     cancelledRequestIds |-> cancelledRequestIds,
     completedRequestIds |-> completedRequestIds,
     currentRequestId |-> currentRequestId]

EmptyMap == [k \in {} |-> Null]

\* Map.prototype.set
MapSet(m, k, v) == [x \in (DOMAIN m) \cup {k} |-> IF x = k THEN v ELSE m[x]]

InitialStore ==
    [cache |-> EmptyMap,
     cancelledRequestIds |-> {},
     completedRequestIds |-> {},
     currentRequestId |-> Undefined]

add_NoPointer(S, requestId, request) ==
    IF Truthy(request) /\ Truthy(requestId)
    THEN [S EXCEPT !.cache = MapSet(S.cache, requestId, request)]
    ELSE S

add_Unguarded(S, requestId, request) ==
    [S EXCEPT !.cache = MapSet(S.cache, requestId, request),
              !.currentRequestId = requestId]

add_ResetsFlags(S, requestId, request) ==
    IF Truthy(request) /\ Truthy(requestId)
    THEN [S EXCEPT !.cache = MapSet(S.cache, requestId, request),
                   !.currentRequestId = requestId,
                   !.cancelledRequestIds = @ \ {requestId},
                   !.completedRequestIds = @ \ {requestId}]
    ELSE S

add(S, requestId, request) ==
    IF Truthy(request) /\ Truthy(requestId)
    THEN [S EXCEPT !.cache = MapSet(S.cache, requestId, request),
                   !.currentRequestId = requestId]
    ELSE S

getLatest(S) ==
    IF S.currentRequestId \in DOMAIN S.cache
    THEN S.cache[S.currentRequestId]
    ELSE Null

cancel_AlsoCompletes(S, requestId) ==
    LET rid == IF Truthy(requestId) THEN requestId ELSE S.currentRequestId
    IN  [S EXCEPT !.cancelledRequestIds = @ \cup {rid},
                  !.completedRequestIds = @ \cup {rid}]

cancel_Toggle(S, requestId) ==
    LET rid == IF Truthy(requestId) THEN requestId ELSE S.currentRequestId
    IN  IF rid \notin S.cancelledRequestIds
        THEN [S EXCEPT !.cancelledRequestIds = @ \cup {rid}]
        ELSE [S EXCEPT !.cancelledRequestIds = @ \ {rid}]

cancel_NamedOnly(S, requestId) ==
    IF Truthy(requestId) /\ requestId \notin S.cancelledRequestIds
    THEN [S EXCEPT !.cancelledRequestIds = @ \cup {requestId}]
    ELSE S

cancel(S, requestId) ==
    LET rid == IF Truthy(requestId) THEN requestId ELSE S.currentRequestId
    IN  IF rid \notin S.cancelledRequestIds
        THEN [S EXCEPT !.cancelledRequestIds = @ \cup {rid}]
        ELSE S

\* `requestId && set.has(requestId)`.  For a falsy requestId the code returns
\* the requestId itself, a falsy value: the model returns its truth value, FALSE.
isCancelled(S, requestId) ==
    Truthy(requestId) /\ requestId \in S.cancelledRequestIds

complete(S, requestId) ==
    IF Truthy(requestId)
    THEN [S EXCEPT !.completedRequestIds = @ \cup {requestId}]
    ELSE S

isCompleted(S, requestId) ==
    LET rid == IF Truthy(requestId) THEN requestId ELSE S.currentRequestId
    IN  rid \in S.completedRequestIds

\* The store after a call: the four fields take the values of S.
SetStore(S) ==
    /\ cache' = S.cache
    /\ cancelledRequestIds' = S.cancelledRequestIds
    /\ completedRequestIds' = S.completedRequestIds
    /\ currentRequestId' = S.currentRequestId

NoCall == [op |-> "none"]

\* No call of cancel yet.
NoCancels == [named |-> {}, bound |-> {}]

InitStore ==
    /\ cache = InitialStore.cache
    /\ cancelledRequestIds = InitialStore.cancelledRequestIds
    /\ completedRequestIds = InitialStore.completedRequestIds
    /\ currentRequestId = InitialStore.currentRequestId
    /\ call = NoCall
    /\ lastAdd = NoCall
    /\ lastStored = NoCall
    /\ cancelLog = NoCancels
    /\ cancelSeen = {}

\* The identifier cancel(requestId) marks.
CancelTarget(requestId) == IF Truthy(requestId) THEN requestId ELSE currentRequestId

\* A call of RequestStore.add
Add(requestId, request) ==
    /\ SetStore(add(Store, requestId, request))
    /\ UNCHANGED <<cancelSeen, saveVars>>

\* The point a call of send stands at, as the callers of cancel see it.
Phase(p) ==
    CASE p \in {"start", "import"} -> "before the options are built"
      [] p = "drain" -> "while the body stream is drained"
      [] p \in {"built", "transport"} -> "while the transport is awaited"
      [] p = "done" -> "after send has settled"

\* A call of RequestStore.cancel; the log notes a cancel of the request in flight.
Cancel(requestId) ==
    /\ SetStore(cancel(Store, requestId))
    /\ cancelSeen' = IF pc # "idle" /\ CancelTarget(requestId) = inflightId
                     THEN cancelSeen \cup {Phase(pc)}
                     ELSE cancelSeen
    /\ UNCHANGED saveVars

\* A call of RequestStore.complete
Complete(requestId) ==
    /\ SetStore(complete(Store, requestId))
    /\ UNCHANGED <<cancelSeen, saveVars>>

LogAdd(requestId, request) ==
    /\ call' = [op |-> "add", id |-> requestId, request |-> request]
    /\ lastAdd' = call'
    /\ lastStored' = IF requestId \in Ids /\ request \in Requests THEN call' ELSE lastStored
    /\ UNCHANGED cancelLog

LogCall(op, requestId) ==
    /\ call' = [op |-> op, id |-> requestId]
    /\ UNCHANGED <<lastAdd, lastStored>>
    /\ cancelLog' = IF op # "cancel" THEN cancelLog
                    ELSE IF Truthy(requestId)
                    THEN [cancelLog EXCEPT !.named = @ \cup {requestId}]
                    ELSE [cancelLog EXCEPT !.bound = @ \cup {currentRequestId}]


(***************************************************************************)
(* Strings of the HTTP client.  A header value, a header name's spelling   *)
(* and a URL part are sequences of atoms; an atom is a run of characters   *)
(* that the code never looks inside ("Basic", "u", "gzip") or one          *)
(* separator character (" ", ":").  The empty string is << >>.             *)
(***************************************************************************)
Space == " "

\* A string-valued expression that is undefined (getHeader without a match).
UndefinedStr == <<Undefined>>

TruthyStr(s) == s # UndefinedStr /\ s # << >>

RECURSIVE SplitAt(_, _, _, _, _)
\* The scan behind String.prototype.split with a separator that matches
\* maximal runs of `sep` (runs = TRUE, /\s+/) or one `sep` (runs = FALSE, ":").
SplitAt(s, i, cur, sep, runs) ==
    IF i > Len(s) THEN <<cur>>
    ELSE IF s[i] = sep
         THEN IF runs /\ i > 1 /\ s[i - 1] = sep
              THEN SplitAt(s, i + 1, cur, sep, runs)
              ELSE <<cur>> \o SplitAt(s, i + 1, << >>, sep, runs)
         ELSE SplitAt(s, i + 1, Append(cur, s[i]), sep, runs)

\* authorization.split(/\s+/)
SplitWhitespace(s) == SplitAt(s, 1, << >>, Space, TRUE)

\* eh.split(":")
SplitColon(s) == SplitAt(s, 1, << >>, ":", FALSE)

RECURSIVE Join(_, _)
\* Array.prototype.join
Join(parts, sep) ==
    IF parts = << >> THEN << >>
    ELSE IF Len(parts) = 1 THEN parts[1]
    ELSE parts[1] \o <<sep>> \o Join(Tail(parts), sep)

(***************************************************************************)
(* base64 (./misc, not among the sources): the standard base64 encoding of *)
(* the UTF-8 bytes of a string, computed on the bytes of the atoms.        *)
(***************************************************************************)
AtomBytes(a) ==
    CASE a = "u" -> <<117>>
      [] a = "p" -> <<112>>
      [] a = Space -> <<32>>
      [] a = ":" -> <<58>>
      [] a = "Basic" -> <<66, 97, 115, 105, 99>>
      [] a = "Digest" -> <<68, 105, 103, 101, 115, 116>>
      [] OTHER -> <<63>>

RECURSIVE StringBytes(_)
StringBytes(s) == IF s = << >> THEN << >> ELSE AtomBytes(Head(s)) \o StringBytes(Tail(s))

Base64Alphabet ==
    <<"A", "B", "C", "D", "E", "F", "G", "H", "I", "J", "K", "L", "M",
      "N", "O", "P", "Q", "R", "S", "T", "U", "V", "W", "X", "Y", "Z",
      "a", "b", "c", "d", "e", "f", "g", "h", "i", "j", "k", "l", "m",
      "n", "o", "p", "q", "r", "s", "t", "u", "v", "w", "x", "y", "z",
      "0", "1", "2", "3", "4", "5", "6", "7", "8", "9", "+", "/">>

Sextet(n) == Base64Alphabet[n + 1]

RECURSIVE Base64Bytes(_)
Base64Bytes(b) ==
    IF b = << >> THEN << >>
    ELSE IF Len(b) = 1
         THEN <<Sextet(b[1] \div 4), Sextet((b[1] % 4) * 16), "=", "=">>
    ELSE IF Len(b) = 2
         THEN <<Sextet(b[1] \div 4), Sextet((b[1] % 4) * 16 + b[2] \div 16),
                Sextet((b[2] % 16) * 4), "=">>
    ELSE <<Sextet(b[1] \div 4), Sextet((b[1] % 4) * 16 + b[2] \div 16),
           Sextet((b[2] % 16) * 4 + b[3] \div 64), Sextet(b[3] % 64)>>
         \o Base64Bytes(SubSeq(b, 4, Len(b)))

base64(text) == Base64Bytes(StringBytes(text))

(***************************************************************************)
(* Header mappings.  A JavaScript object used as a mapping keeps its keys  *)
(* in insertion order: a sequence of [name, value] with distinct names.    *)
(* A header name is one TLA+ string per spelling; toLowerCase is the table *)
(* of the spellings the model uses.                                        *)
(***************************************************************************)
toLowerCase(name) ==
    CASE name \in {"Authorization", "AUTHORIZATION"} -> "authorization"
      [] name = "Host" -> "host"
      [] name = "Accept-Encoding" -> "accept-encoding"
      [] name = "Content-Type" -> "content-type"
      [] OTHER -> name

\* headers[name] = value
ObjSet(headers, name, value) ==
    IF \E i \in 1..Len(headers) : headers[i].name = name
    THEN [i \in 1..Len(headers) |->
             IF headers[i].name = name
             THEN [name |-> name, value |-> value]
             ELSE headers[i]]
    ELSE Append(headers, [name |-> name, value |-> value])

\* headers[name]
ObjGet(headers, name) ==
    IF \E i \in 1..Len(headers) : headers[i].name = name
    THEN headers[CHOOSE i \in 1..Len(headers) : headers[i].name = name].value
    ELSE UndefinedStr

\* The positions of the keys that equal `name` ignoring case.
Matches(headers, name) ==
    {i \in 1..Len(headers) : toLowerCase(headers[i].name) = toLowerCase(name)}

\* getHeader (./misc, not among the sources): the value of the first key that
\* equals `name` ignoring case, undefined without one.
getHeader(headers, name) ==
    IF Matches(headers, name) = {} THEN UndefinedStr
    ELSE headers[CHOOSE i \in Matches(headers, name) :
                     \A j \in Matches(headers, name) : i <= j].value

\* hasHeader (./misc, not among the sources): whether a key equals `name`
\* ignoring case.
hasHeader(headers, name) == Matches(headers, name) # {}

(***************************************************************************)
(* URLs.  A request URL is kept by its parts: protocol ("http:", "https:", *)
(* or absent for a bare path such as "/users"), host name as written, and  *)
(* port (<< >> when the URL names none).                                   *)
(***************************************************************************)
NullStr == <<Null>>

AtomLower(a) == IF a = "H" THEN "h" ELSE a

\* String.prototype.toLowerCase on an atom sequence
StrLower(s) == [i \in 1..Len(s) |-> AtomLower(s[i])]

\* url.parse(requestUrl): hostname (lower-cased by the parser, null for a
\* bare path), port (null when absent) and host ("hostname:port").
UrlParse(u) ==
    IF u.protocol = Empty
    THEN [hostname |-> NullStr, port |-> NullStr, host |-> NullStr]
    ELSE [hostname |-> StrLower(u.hostname),
          port |-> IF u.port = << >> THEN NullStr ELSE u.port,
          host |-> IF u.port = << >> THEN StrLower(u.hostname)
                   ELSE StrLower(u.hostname) \o <<":">> \o u.port]

\* httpRequest.url[0]
UrlFirstChar(u) == IF u.protocol = Empty THEN "/" ELSE "h"

TruthyOrNull(s) == s # NullStr /\ TruthyStr(s)

RECURSIVE Dedup(_, _)
\* Array.from(new Set(list)): the first occurrence of each element, in order.
Dedup(list, seen) ==
    IF list = << >> THEN << >>
    ELSE IF Head(list) \in seen THEN Dedup(Tail(list), seen)
    ELSE <<Head(list)>> \o Dedup(Tail(list), seen \cup {Head(list)})

\* The body of the loop of ignoreProxy: whether entry eh excludes the request.
ProxyEntryMatches(eh, hostName, port) ==
    LET urlParts == SplitColon(eh)
    IN  IF ~TruthyOrNull(port)
        THEN Len(urlParts) = 1 /\ urlParts[1] = hostName
        ELSE LET ph == urlParts[1]
                 pp == IF Len(urlParts) >= 2 THEN urlParts[2] ELSE UndefinedStr
             IN  ph = hostName /\ (~TruthyStr(pp) \/ pp = port)

RECURSIVE ProxyLoop(_, _, _)
ProxyLoop(list, hostName, port) ==
    IF list = << >> THEN FALSE
    ELSE IF ProxyEntryMatches(Head(list), hostName, port) THEN TRUE
    ELSE ProxyLoop(Tail(list), hostName, port)

ignoreProxy(requestUrl, excludeHostsForProxy) ==
    IF excludeHostsForProxy = << >> THEN FALSE
    ELSE LET resolvedUrl == UrlParse(requestUrl)
             hostName == IF TruthyOrNull(resolvedUrl.hostname)
                         THEN StrLower(resolvedUrl.hostname)
                         ELSE resolvedUrl.hostname
             port == resolvedUrl.port
             excludeHostsProxyList ==
                 Dedup([i \in 1..Len(excludeHostsForProxy) |->
                           StrLower(excludeHostsForProxy[i])], {})
         IN  ProxyLoop(excludeHostsProxyList, hostName, port)

(***************************************************************************)
(* Client certificates, lines 290-323 and 362-397.  The environment is a   *)
(* record: hosts, the keys of settings.hostCertificates; paths, the        *)
(* configured path of each artifact ("" when not configured, else absolute *)
(* or relative); fs, what the file system holds at the place the path is   *)
(* looked up; rootPath and currentFile, what getWorkspaceRootPath() and    *)
(* getCurrentHttpFileName() return.                                        *)
(***************************************************************************)
Artifacts == <<"cert", "key", "pfx">>

\* fs.existsSync(path): true for a file and for a directory.
ExistsSync(entry) == entry \in {"file", "directory"}

\* Lines 362-397: the resolved path (undefined when there is none) and
\* whether window.showWarningMessage was called.
resolveCertificateFullPath(absoluteOrRelativePath, certName, E) ==
    IF absoluteOrRelativePath = "absolute"
    THEN IF ~ExistsSync(E.fs[certName])
         THEN [path |-> Undefined, warned |-> TRUE]
         ELSE [path |-> "absolute", warned |-> FALSE]
    ELSE IF Truthy(E.rootPath)
    THEN IF ExistsSync(E.fs[certName])
         THEN [path |-> "root/relative", warned |-> FALSE]
         ELSE [path |-> Undefined, warned |-> TRUE]
    ELSE IF ~Truthy(E.currentFile)
    THEN [path |-> Undefined, warned |-> FALSE]
    ELSE IF ExistsSync(E.fs[certName])
    THEN [path |-> "dir/relative", warned |-> FALSE]
    ELSE [path |-> Undefined, warned |-> TRUE]

NoCertificate ==
    [called |-> FALSE, found |-> FALSE, threw |-> FALSE,
     material |-> [a \in {"cert", "key", "pfx"} |-> Undefined], warnings |-> << >>]

RECURSIVE CertificateLoop(_, _, _)
\* Lines 301-318: the three artifacts in turn.  fs.readFileSync throws for a
\* path that is a directory, and the artifacts after it are not looked at.
CertificateLoop(i, acc, E) ==
    IF i > Len(Artifacts) \/ acc.threw THEN acc
    ELSE LET certName == Artifacts[i]
             resolved == resolveCertificateFullPath(E.paths[certName], certName, E)
             warned == IF resolved.warned THEN Append(acc.warnings, certName)
                       ELSE acc.warnings
         IN  IF ~Truthy(E.paths[certName]) THEN CertificateLoop(i + 1, acc, E)
             ELSE IF ~Truthy(resolved.path)
             THEN CertificateLoop(i + 1, [acc EXCEPT !.warnings = warned], E)
             ELSE IF E.fs[certName] = "directory"
             THEN [acc EXCEPT !.threw = TRUE, !.warnings = warned]
             ELSE CertificateLoop(i + 1,
                                  [acc EXCEPT !.material[certName] = "buffer",
                                              !.warnings = warned], E)

\* Lines 290-323: null (found = FALSE) without a host or a table entry.
getRequestCertificate(requestUrl, E) ==
    LET host == UrlParse(requestUrl).host
        entered == [NoCertificate EXCEPT !.called = TRUE]
    IN  IF ~TruthyOrNull(host) THEN entered
        ELSE IF host \in E.hosts
        THEN CertificateLoop(1, [entered EXCEPT !.found = TRUE], E)
        ELSE entered

(***************************************************************************)
(* HttpClient.prepareOptions, lines 178-265.  The steps that decide the    *)
(* headers, the proxy agent and the decompression flag, each an operator.  *)
(* options.headers is the very object httpRequest.headers, so what the     *)
(* steps write to one they write to the other; a request without a headers *)
(* object gets an empty one (line 204) and is modelled by the empty        *)
(* mapping.                                                                *)
(***************************************************************************)
NoHooks == << >>

AuthorizationStep_FirstArgOnly(headers) ==
    LET authorization == getHeader(headers, "Authorization")
        parts == SplitWhitespace(authorization)
        scheme == parts[1]
        user == IF Len(parts) >= 2 THEN parts[2] ELSE UndefinedStr
        args == SubSeq(parts, 3, Len(parts))
        pass == args[1]
    IN  IF TruthyStr(authorization) /\ Len(args) > 0 /\ scheme = <<"Basic">>
        THEN [headers |-> ObjSet(headers, "Authorization",
                                 <<"Basic", Space>> \o base64(user \o <<":">> \o pass)),
              hooks |-> NoHooks]
        ELSE [headers |-> headers, hooks |-> NoHooks]

\* Lines 209-220: the Authorization rewrite.  [headers, hooks] afterwards.
AuthorizationStep(headers) ==
    LET authorization == getHeader(headers, "Authorization")
        parts == SplitWhitespace(authorization)
        scheme == parts[1]
        user == IF Len(parts) >= 2 THEN parts[2] ELSE UndefinedStr
        args == SubSeq(parts, 3, Len(parts))
        pass == Join(args, Space)
    IN  IF TruthyStr(authorization) /\ Len(args) > 0
        THEN IF scheme = <<"Basic">>
             THEN [headers |-> ObjSet(headers, "Authorization",
                                      <<"Basic", Space>> \o base64(user \o <<":">> \o pass)),
                   hooks |-> NoHooks]
             ELSE IF scheme = <<"Digest">>
             THEN [headers |-> headers,
                   hooks |-> <<[afterResponse |-> "digest", user |-> user, pass |-> pass]>>]
             ELSE [headers |-> headers, hooks |-> NoHooks]
        ELSE [headers |-> headers, hooks |-> NoHooks]

\* Lines 232-247: the proxy agent, "none" without one.
ProxyStep(requestUrl, S) ==
    IF S.proxy # Empty /\ ~ignoreProxy(requestUrl, S.excludeHostsForProxy)
    THEN IF S.proxy \in {"http:", "https:"}
         THEN IF requestUrl.protocol = "http:" THEN "http-proxy-agent" ELSE "https-proxy-agent"
         ELSE "none"
    ELSE "none"

RECURSIVE DefaultHeadersStep_ExactKey(_, _, _)
DefaultHeadersStep_ExactKey(headers, defaultHeaders, requestUrl) ==
    IF defaultHeaders = << >> THEN headers
    ELSE LET header == Head(defaultHeaders).name
             value == Head(defaultHeaders).value
             merged ==
                 IF /\ ObjGet(headers, header) = UndefinedStr
                    /\ (toLowerCase(header) # "host" \/ UrlFirstChar(requestUrl) = "/")
                    /\ TruthyStr(value)
                 THEN ObjSet(headers, header, value)
                 ELSE headers
         IN  DefaultHeadersStep_ExactKey(merged, Tail(defaultHeaders), requestUrl)

RECURSIVE DefaultHeadersStep(_, _, _)
\* Lines 250-257: the default headers, in their order, merged into headers.
DefaultHeadersStep(headers, defaultHeaders, requestUrl) ==
    IF defaultHeaders = << >> THEN headers
    ELSE LET header == Head(defaultHeaders).name
             value == Head(defaultHeaders).value
             merged ==
                 IF /\ ~hasHeader(headers, header)
                    /\ (toLowerCase(header) # "host" \/ UrlFirstChar(requestUrl) = "/")
                    /\ TruthyStr(value)
                 THEN ObjSet(headers, header, value)
                 ELSE headers
         IN  DefaultHeadersStep(merged, Tail(defaultHeaders), requestUrl)

\* Lines 259-262: acceptEncoding.includes('gzip')
DecompressStep(headers) ==
    LET acceptEncoding == getHeader(headers, "Accept-Encoding")
    IN  TruthyStr(acceptEncoding) /\ \E i \in 1..Len(acceptEncoding) : acceptEncoding[i] = "gzip"

\* Lines 189-264: the options built from the request, its drained body and
\* the settings.  timeout 0 stands for an options object without a timeout.
prepareOptions(request, requestBody, S) ==
    LET auth == AuthorizationStep(request.headers)
        merged == DefaultHeadersStep(auth.headers, S.defaultHeaders, request.url)
    IN  [headers |-> merged,
         method |-> request.method,
         body |-> requestBody,
         timeout |-> IF S.timeoutInMilliseconds > 0 THEN S.timeoutInMilliseconds ELSE 0,
         hooks |-> auth.hooks,
         agent |-> ProxyStep(request.url, S),
         decompress |-> DecompressStep(merged)]

(***************************************************************************)
(* The response materializer of HttpClient.send, lines 116-138.  A body    *)
(* buffer is a sequence of bytes, a decoded body a sequence of UTF-16 code *)
(* units; the charset is one string per spelling.                          *)
(***************************************************************************)
\* A bodyString that was never assigned.
UndefinedBody == <<-1>>

ReplacementChar == 65533

\* MimeUtility.parse(contentType).charset (./mimeUtility, not among the
\* sources): the value of the charset parameter of a Content-Type value
\* <<type, ";", "charset", "=", name>>, undefined without one.
MimeCharset(contentType) ==
    IF \E i \in 1..Len(contentType) - 2 : contentType[i] = "charset" /\ contentType[i + 1] = "="
    THEN contentType[(CHOOSE i \in 1..Len(contentType) - 2 :
                         contentType[i] = "charset" /\ contentType[i + 1] = "=") + 2]
    ELSE Undefined

\* iconv-lite's canonical encoding name: lower-cased, without punctuation.
IconvCanonical(encoding) ==
    CASE encoding \in {"utf8", "utf-8", "UTF-8"} -> "utf8"
      [] encoding \in {"latin1", "ISO-8859-1"} -> "latin1"
      [] OTHER -> "unrecognized"

RECURSIVE Utf8Decode(_)
\* UTF-8 decoding of one- and two-byte sequences; a byte that starts or
\* continues nothing valid decodes to U+FFFD.
Utf8Decode(b) ==
    IF b = << >> THEN << >>
    ELSE IF b[1] < 128 THEN <<b[1]>> \o Utf8Decode(Tail(b))
    ELSE IF b[1] >= 194 /\ b[1] < 224 /\ Len(b) >= 2 /\ b[2] >= 128 /\ b[2] < 192
         THEN <<(b[1] % 32) * 64 + (b[2] % 64)>> \o Utf8Decode(SubSeq(b, 3, Len(b)))
    ELSE <<ReplacementChar>> \o Utf8Decode(Tail(b))

\* iconv.decode(buffer, encoding): the decoded string, or threw = TRUE for an
\* encoding iconv-lite does not recognize.
IconvDecode(buffer, encoding) ==
    CASE IconvCanonical(encoding) = "utf8" -> [threw |-> FALSE, str |-> Utf8Decode(buffer)]
      [] IconvCanonical(encoding) = "latin1" -> [threw |-> FALSE, str |-> buffer]
      [] OTHER -> [threw |-> TRUE, str |-> UndefinedBody]

\* [\d\w]: a digit, a letter or "_"
IsWordChar(c) == (c >= 48 /\ c <= 57) \/ (c >= 65 /\ c <= 90) \/ (c >= 97 /\ c <= 122) \/ c = 95

IsHexDigit(c) == (c >= 48 /\ c <= 57) \/ (c >= 65 /\ c <= 70) \/ (c >= 97 /\ c <= 102)

HexValue(c) == IF c <= 57 THEN c - 48 ELSE IF c <= 70 THEN c - 55 ELSE c - 87

RECURSIVE HexPrefix(_, _)
\* The number the leading hexadecimal digits of g spell after acc, as parseInt reads them.
HexPrefix(g, acc) ==
    IF g = << >> \/ ~IsHexDigit(Head(g)) THEN acc
    ELSE HexPrefix(Tail(g), acc * 16 + HexValue(Head(g)))

\* String.fromCharCode(parseInt(g, 16)): NaN (no leading digit) gives U+0000,
\* and parseInt skips a leading "0x".
CharOfHex(g) ==
    LET digits == IF Len(g) >= 2 /\ g[1] = 48 /\ g[2] \in {120, 88}
                  THEN SubSeq(g, 3, Len(g)) ELSE g
    IN  IF digits = << >> \/ ~IsHexDigit(Head(digits)) THEN 0
        ELSE HexPrefix(digits, 0) % 65536

RECURSIVE decodeEscapedUnicodeCharacters(_)
\* Lines 286-288: body.replace(/\\u([\d\w]{4})/gi, ...)
decodeEscapedUnicodeCharacters(body) ==
    IF body = << >> THEN << >>
    ELSE IF /\ Len(body) >= 6
            /\ body[1] = 92
            /\ body[2] \in {117, 85}
            /\ \A i \in 3..6 : IsWordChar(body[i])
         THEN <<CharOfHex(SubSeq(body, 3, 6))>>
              \o decodeEscapedUnicodeCharacters(SubSeq(body, 7, Len(body)))
    ELSE <<Head(body)>> \o decodeEscapedUnicodeCharacters(Tail(body))

Rejected(error) == [kind |-> "rejected", error |-> error]

Materialize_NoFallback(response, S) ==
    LET contentType == response.contentType
        charset == IF TruthyStr(contentType) THEN MimeCharset(contentType) ELSE Undefined
        encoding == IF Truthy(charset) THEN charset ELSE "utf8"
        first == IconvDecode(response.body, encoding)
    IN  IF first.threw THEN Rejected("decode")
        ELSE [kind |-> "response",
              statusCode |-> response.statusCode,
              body |-> IF S.decodeEscapedUnicodeCharacters
                       THEN decodeEscapedUnicodeCharacters(first.str) ELSE first.str,
              bodyBuffer |-> response.body]

\* Lines 116-175: what send returns (or throws) once the transport's response
\* is there.  An error thrown inside the async function rejects its promise.
Materialize(response, S) ==
    LET contentType == response.contentType
        charset == IF TruthyStr(contentType) THEN MimeCharset(contentType) ELSE Undefined
        encoding == IF Truthy(charset) THEN charset ELSE "utf8"
        first == IconvDecode(response.body, encoding)
        second == IconvDecode(response.body, "utf8")
        bodyString == IF ~first.threw THEN first.str
                      ELSE IF encoding # "utf8" THEN second.str
                      ELSE UndefinedBody
    IN  IF first.threw /\ encoding # "utf8" /\ second.threw THEN Rejected("decode")
        ELSE IF S.decodeEscapedUnicodeCharacters /\ bodyString = UndefinedBody
        THEN Rejected("TypeError")
        ELSE [kind |-> "response",
              statusCode |-> response.statusCode,
              body |-> IF S.decodeEscapedUnicodeCharacters
                       THEN decodeEscapedUnicodeCharacters(bodyString) ELSE bodyString,
              bodyBuffer |-> response.body]

(***************************************************************************)
(* The inputs: requests, settings and what the transport answers.          *)
(***************************************************************************)
MaxAuthTail == 7

MaxRequestHeaders == 2

MaxDefaultHeaders == 2

MaxExcludeHosts == 2

BoundedSeqs(S, n) == UNION {[1..k -> S] : k \in 0..n}

Header(name, value) == [name |-> name, value |-> value]

\* Authorization values: a scheme and up to MaxAuthTail further atoms, with
\* or without whitespace in front.
AuthValues ==
    {lead \o <<scheme>> \o t :
        lead \in {<< >>, <<Space>>},
        scheme \in {"Basic", "Digest"},
        t \in BoundedSeqs({"u", "p", Space}, MaxAuthTail)}

BasicUserPass == <<"Basic", Space, "u", Space, "p">>

AuthSpellings == {"Authorization", "authorization"}

\* No two keys of the mapping are equal ignoring case.
NoCaseDuplicates(headers) ==
    \A i, j \in 1..Len(headers) :
        toLowerCase(headers[i].name) = toLowerCase(headers[j].name) => i = j

\* No two keys of the mapping are equal (the keys of a JavaScript object).
DistinctKeys(headers) ==
    \A i, j \in 1..Len(headers) : headers[i].name = headers[j].name => i = j

RequestHeaderChoices ==
    {Header(n, BasicUserPass) : n \in AuthSpellings}
    \cup {Header(n, <<"text">>) : n \in {"Content-Type", "content-type"}}
    \cup {Header("host", <<"h">>), Header("Accept-Encoding", <<"gzip">>)}

DefaultHeaderChoices ==
    {Header("Content-Type", <<"json">>), Header("content-type", <<"json">>),
     Header("Host", <<"api">>), Header("Accept-Encoding", <<"gzip">>),
     Header("User-Agent", << >>)}

Url(protocol, hostname, port) == [protocol |-> protocol, hostname |-> hostname, port |-> port]

BarePath == Url(Empty, << >>, << >>)

PlainUrl == Url("http:", <<"h">>, << >>)

Urls ==
    {BarePath}
    \cup {Url(protocol, hostname, port) :
            protocol \in {"http:", "https:"},
            hostname \in {<<"h">>, <<"H">>, <<"g">>},
            port \in {<< >>, <<"80">>}}

ExcludeChoices ==
    {<<"h">>, <<"H">>, <<"g">>, <<"h", ":", "80">>, <<"H", ":", "80">>,
     <<"h", ":", "81">>, <<"h", ":">>, <<"h", ":", "80", ":", "81">>, << >>}

NoBody == [kind |-> "none", data |-> << >>]

Bodies == {NoBody, [kind |-> "string", data |-> <<98>>], [kind |-> "stream", data |-> <<98>>]}

Request(url, headers, body) ==
    [method |-> "GET", url |-> url, headers |-> headers, body |-> body]

Settings(defaultHeaders, proxy, excludeHostsForProxy, timeout, decodeEscaped) ==
    [defaultHeaders |-> defaultHeaders,
     proxy |-> proxy,
     excludeHostsForProxy |-> excludeHostsForProxy,
     timeoutInMilliseconds |-> timeout,
     decodeEscapedUnicodeCharacters |-> decodeEscaped]

\* What the transport resolves the request to: statusCode, the content-type
\* response header and the body buffer.
ContentTypes ==
    {UndefinedStr, <<"text/plain">>,
     <<"text/plain", ";", "charset", "=", "latin1">>,
     <<"text/plain", ";", "charset", "=", "UTF-8">>,
     <<"text/plain", ";", "charset", "=", "x-unknown">>}

ResponseBodies == {<<65>>, <<195, 169>>, <<92, 117, 48, 48, 52, 49>>}

Responses ==
    {[kind |-> "response", statusCode |-> 200, contentType |-> ct, body |-> b] :
        ct \in ContentTypes, b \in ResponseBodies}

\* No certificate configured, no workspace folder, no current file.
NoCertEnv ==
    [hosts |-> {},
     paths |-> [a \in {"cert", "key", "pfx"} |-> Empty],
     fs |-> [a \in {"cert", "key", "pfx"} |-> "missing"],
     rootPath |-> Empty,
     currentFile |-> Undefined]

CertEnvs ==
    [hosts : {{<<"h">>}, {<<"g">>}},
     paths : [{"cert", "key", "pfx"} -> {Empty, "absolute", "relative"}],
     fs : [{"cert", "key", "pfx"} -> {"missing", "file", "directory"}],
     rootPath : {Empty, "root"},
     currentFile : {Undefined, "current.http"}]

NoWire == [stream |-> "none", reply |-> [kind |-> "none"]]

NoOptions == [headers |-> << >>]

NoOutcome == [kind |-> "pending"]

NotCalled == [called |-> FALSE, result |-> FALSE]

(***************************************************************************)
(* HttpClient.send, lines 97-176, as the steps between its awaits:         *)
(*   start      send has been called, nothing has run                      *)
(*   drain      await convertStreamToBuffer (line 183)                     *)
(*   import     await import('http(s)-proxy-agent') (lines 241-243)        *)
(*   built      prepareOptions has returned, await of line 98              *)
(*   transport  await request (line 114)                                   *)
(*   done       the promise of send is settled                             *)
(***************************************************************************)
\* Lines 189-247: the options up to the proxy step.  When an agent has to be
\* imported the function suspends before the default headers are merged.
BuildOptions(requestBody) ==
    LET full == prepareOptions(httpRequest, requestBody, settings)
        auth == AuthorizationStep(httpRequest.headers)
        cert == getRequestCertificate(httpRequest.url, certEnv)
    IN  /\ certificate' = cert
        /\ UNCHANGED certEnv
        /\ IF cert.threw
           THEN /\ pc' = "done"
                /\ outcome' = Rejected("readFileSync")
                /\ UNCHANGED <<options, headersBeforeMerge, proxyIgnored>>
           ELSE /\ outcome' = outcome
                /\ proxyIgnored' = IF settings.proxy # Empty
                                   THEN [called |-> TRUE,
                                         result |-> ignoreProxy(httpRequest.url,
                                                                settings.excludeHostsForProxy)]
                                   ELSE NotCalled
                /\ headersBeforeMerge' = auth.headers
                /\ IF full.agent # "none"
                   THEN /\ pc' = "import"
                        /\ options' = [full EXCEPT !.headers = auth.headers,
                                                   !.agent = "none",
                                                   !.decompress = FALSE]
                   ELSE /\ pc' = "built"
                        /\ options' = full

\* send is entered: the body is normalized (lines 179-187).
Start ==
    /\ pc = "start"
    /\ IF httpRequest.body.kind = "stream"
       THEN /\ pc' = "drain"
            /\ UNCHANGED <<options, outcome, headersBeforeMerge, proxyIgnored, certVars>>
       ELSE BuildOptions(httpRequest.body)
    /\ UNCHANGED <<httpRequest, settings, inflightId, wire>>
    /\ UNCHANGED <<storeVars, logVars, cancelSeen, saveVars>>

\* The body stream ends: its chunks become the buffer (line 271).
DrainEnd ==
    /\ pc = "drain"
    /\ BuildOptions([kind |-> "buffer", data |-> httpRequest.body.data])
    /\ wire' = [wire EXCEPT !.stream = "end"]
    /\ UNCHANGED <<httpRequest, settings, inflightId>>
    /\ UNCHANGED <<storeVars, logVars, cancelSeen, saveVars>>

\* The body stream fails: the promise of send is rejected (line 272).
DrainError ==
    /\ pc = "drain"
    /\ pc' = "done"
    /\ outcome' = Rejected("stream")
    /\ wire' = [wire EXCEPT !.stream = "error"]
    /\ UNCHANGED <<httpRequest, settings, options, inflightId, headersBeforeMerge, proxyIgnored,
                   certVars>>
    /\ UNCHANGED <<storeVars, logVars, cancelSeen, saveVars>>

\* The proxy agent is imported: lines 245-264.
ImportDone ==
    /\ pc = "import"
    /\ pc' = "built"
    /\ options' = prepareOptions(httpRequest, options.body, settings)
    /\ UNCHANGED <<httpRequest, settings, outcome, inflightId, wire, headersBeforeMerge, proxyIgnored,
                   certVars>>
    /\ UNCHANGED <<storeVars, logVars, cancelSeen, saveVars>>

\* Lines 100-114: the request is handed to the transport.
Submit ==
    /\ pc = "built"
    /\ pc' = "transport"
    /\ UNCHANGED <<httpRequest, settings, options, outcome, inflightId, wire,
                   headersBeforeMerge, proxyIgnored, certVars>>
    /\ UNCHANGED <<storeVars, logVars, cancelSeen, saveVars>>

TransportResponse_AbortsCancelled(response) ==
    /\ pc = "transport"
    /\ pc' = "done"
    /\ wire' = [wire EXCEPT !.reply = response]
    /\ outcome' = IF isCancelled(Store, inflightId)
                  THEN Rejected("cancelled")
                  ELSE Materialize(response, settings)
    /\ UNCHANGED <<httpRequest, settings, options, inflightId, headersBeforeMerge, proxyIgnored,
                   certVars>>
    /\ UNCHANGED <<storeVars, logVars, cancelSeen, saveVars>>

\* The transport resolves: lines 116-175.
TransportResponse(response) ==
    /\ pc = "transport"
    /\ pc' = "done"
    /\ wire' = [wire EXCEPT !.reply = response]
    /\ outcome' = Materialize(response, settings)
    /\ UNCHANGED <<httpRequest, settings, options, inflightId, headersBeforeMerge, proxyIgnored,
                   certVars>>
    /\ UNCHANGED <<storeVars, logVars, cancelSeen, saveVars>>

\* The transport rejects (network error, timeout): send rejects with it.
TransportError ==
    /\ pc = "transport"
    /\ pc' = "done"
    /\ wire' = [wire EXCEPT !.reply = [kind |-> "error"]]
    /\ outcome' = Rejected("transport")
    /\ UNCHANGED <<httpRequest, settings, options, inflightId, headersBeforeMerge, proxyIgnored,
                   certVars>>
    /\ UNCHANGED <<storeVars, logVars, cancelSeen, saveVars>>

\* The caller sends the request it registered last (no send is in flight).
CallSend(request) ==
    /\ pc \in {"idle", "done"}
    /\ currentRequestId \in DOMAIN cache
    /\ pc' = "start"
    /\ httpRequest' = request
    /\ inflightId' = currentRequestId
    /\ options' = NoOptions
    /\ outcome' = NoOutcome
    /\ wire' = NoWire
    /\ headersBeforeMerge' = << >>
    /\ proxyIgnored' = NotCalled
    /\ cancelSeen' = {}
    /\ certificate' = NoCertificate
    /\ UNCHANGED <<settings, certEnv, storeVars, logVars, saveVars>>

PrepareNext == Start \/ DrainEnd \/ DrainError \/ ImportDone

TransportNext ==
    \/ Submit
    \/ \E response \in Responses : TransportResponse(response)
    \/ TransportError

(***************************************************************************)
(* ResponseController, lines 15-61.  The text of a saved response is a     *)
(* sequence of atoms; a header value is one atom.                          *)
(***************************************************************************)
\* os.EOL
EOL == "<EOL>"

RECURSIVE HeaderString(_)
\* Lines 50-55: one line per own property, in the object's order.
HeaderString(headers) ==
    IF headers = << >> THEN << >>
    ELSE <<Head(headers).name, ":", Space, Head(headers).value, EOL>>
         \o HeaderString(Tail(headers))

getFullResponseString_AlwaysBlankLine(response) ==
    <<"HTTP/", response.httpVersion, Space, response.statusCode, Space,
      response.statusMessage, EOL>>
    \o HeaderString(response.headers) \o <<EOL>> \o response.body

\* Lines 48-61.
getFullResponseString(response) ==
    LET statusLine == <<"HTTP/", response.httpVersion, Space, response.statusCode, Space,
                        response.statusMessage, EOL>>
        headerString == HeaderString(response.headers)
        body == IF TruthyStr(response.body) THEN <<EOL>> \o response.body ELSE << >>
    IN  statusLine \o headerString \o body

MaxResponseHeaders == 2

ResponseHeaderChoices ==
    {Header(n, v) : n \in {"content-type", "Content-Type", "X-Id"},
                    v \in {"text/plain", "7"}}

\* HttpResponse as getFullResponseString reads it.
SavedResponses ==
    {[httpVersion |-> version, statusCode |-> status[1], statusMessage |-> status[2],
      headers |-> headers, body |-> body] :
        version \in {"1.1", "2"},
        status \in {<<"200", "OK">>, <<"404", "Not Found">>},
        headers \in {h \in BoundedSeqs(ResponseHeaderChoices, MaxResponseHeaders) :
                        DistinctKeys(h)},
        body \in {<< >>, <<"hi">>, <<"a", EOL, EOL, "b">>}}

NotSaved == <<"<not saved>">>

NoSave ==
    /\ storedResponse \in {r \in SavedResponses :
                              r.httpVersion = "1.1" /\ r.statusCode = "200"
                              /\ r.headers = << >> /\ r.body = << >>}
    /\ savedFile = NotSaved

\* Lines 18-43: save(uri) writes the rendering of the stored response.
Save ==
    /\ savedFile = NotSaved
    /\ savedFile' = getFullResponseString(storedResponse)
    /\ UNCHANGED <<storedResponse, storeVars, logVars, clientVars, cancelSeen>>

(***************************************************************************)
(* Specifications.                                                         *)
(*   Spec         the RequestStore under every sequence of calls           *)
(*   SpecOptions  prepareOptions on every request and settings of the      *)
(*                input sets                                               *)
(*   SpecSend     a call of send, step by step, with the calls of the      *)
(*                RequestStore interleaved                                 *)
(***************************************************************************)
DefaultSettings == Settings(<< >>, Empty, << >>, 0, FALSE)

IdleClient ==
    /\ pc = "idle"
    /\ httpRequest = Request(PlainUrl, << >>, NoBody)
    /\ options = NoOptions
    /\ outcome = NoOutcome
    /\ inflightId = Undefined
    /\ wire = NoWire
    /\ headersBeforeMerge = << >>
    /\ proxyIgnored = NotCalled
    /\ certEnv = NoCertEnv
    /\ certificate = NoCertificate

Init == InitStore /\ IdleClient /\ NoSave /\ settings = DefaultSettings

Next ==
    \/ \E requestId \in IdArgs, request \in RequestArgs :
          Add(requestId, request) /\ LogAdd(requestId, request) /\ UNCHANGED clientVars
    \/ \E requestId \in IdArgs :
          Cancel(requestId) /\ LogCall("cancel", requestId) /\ UNCHANGED clientVars
    \/ \E requestId \in IdArgs :
          Complete(requestId) /\ LogCall("complete", requestId) /\ UNCHANGED clientVars

Spec == Init /\ [][Next]_vars

\* Requests whose Authorization value varies, the settings being the defaults.
AuthInputs ==
    /\ \E name \in AuthSpellings, value \in AuthValues, before \in BoundedSeqs({Header("Content-Type", <<"text">>)}, 1) :
          httpRequest = Request(PlainUrl, before \o <<Header(name, value)>>, NoBody)
    /\ settings = DefaultSettings

\* Requests and default headers whose names and spellings vary.
MergeInputs ==
    /\ \E headers \in BoundedSeqs(RequestHeaderChoices, MaxRequestHeaders), url \in {PlainUrl, BarePath} :
          /\ DistinctKeys(headers)
          /\ httpRequest = Request(url, headers, NoBody)
    /\ \E defaultHeaders \in BoundedSeqs(DefaultHeaderChoices, MaxDefaultHeaders) :
          /\ DistinctKeys(defaultHeaders)
          /\ settings = Settings(defaultHeaders, Empty, << >>, 0, FALSE)

\* Requests, proxy settings and exclusion lists that vary.
ProxyInputs ==
    /\ \E url \in Urls, body \in Bodies :
          httpRequest = Request(url, << >>, body)
    /\ \E proxy \in {Empty, "http:", "socks:"}, timeout \in {0, 1000},
          excludeHostsForProxy \in BoundedSeqs(ExcludeChoices, MaxExcludeHosts) :
          settings = Settings(<< >>, proxy, excludeHostsForProxy, timeout, FALSE)

\* Certificate tables, path kinds, file systems and workspaces that vary.
CertInputs ==
    /\ httpRequest \in {Request(url, << >>, NoBody) : url \in {PlainUrl, BarePath}}
    /\ settings = DefaultSettings
    /\ certEnv \in CertEnvs

InitOptions ==
    /\ InitStore
    /\ pc = "start"
    /\ options = NoOptions
    /\ outcome = NoOutcome
    /\ inflightId = Undefined
    /\ wire = NoWire
    /\ headersBeforeMerge = << >>
    /\ proxyIgnored = NotCalled
    /\ certificate = NoCertificate
    /\ NoSave
    /\ \/ (AuthInputs \/ MergeInputs \/ ProxyInputs) /\ certEnv = NoCertEnv
       \/ CertInputs

NextOptions == PrepareNext

SpecOptions == InitOptions /\ [][NextOptions]_vars

SendRequests ==
    {Request(url, <<Header("Authorization", BasicUserPass)>>, body) :
        url \in {PlainUrl}, body \in Bodies}

SendSettings ==
    {Settings(<<Header("User-Agent", <<"vscode-restclient">>)>>, proxy, << >>, 0, decodeEscaped) :
        proxy \in {Empty, "http:"}, decodeEscaped \in BOOLEAN}

InitSend == InitStore /\ IdleClient /\ NoSave /\ settings \in SendSettings

NextSend ==
    \/ \E requestId \in Ids :
          Add(requestId, "r1") /\ UNCHANGED <<logVars, clientVars>>
    \/ \E requestId \in Ids \cup {Null} :
          Cancel(requestId) /\ UNCHANGED <<logVars, clientVars>>
    \/ \E requestId \in Ids :
          Complete(requestId) /\ UNCHANGED <<logVars, clientVars>>
    \/ \E request \in SendRequests : CallSend(request)
    \/ PrepareNext
    \/ TransportNext

SpecSend == InitSend /\ [][NextSend]_vars

InitSave ==
    /\ InitStore
    /\ IdleClient
    /\ settings = DefaultSettings
    /\ storedResponse \in SavedResponses
    /\ savedFile = NotSaved

NextSave == Save

SpecSave == InitSave /\ [][NextSave]_vars

(***************************************************************************)
(* Claims about the RequestStore, checked under Spec.                      *)
(***************************************************************************)

\* The identifiers a caller can name in a call: the strings, the empty one included.
NamedIds == Ids \cup {Empty}

\* C1 (as stated): getLatest() returns the request passed to the most recent
\* add call, and returns null only when no add call has happened yet.
C1_LatestIsLastAddCall ==
    /\ lastAdd # NoCall => getLatest(Store) = lastAdd.request
    /\ getLatest(Store) = Null => lastAdd = NoCall

\* C1 (amended): getLatest() returns the request passed to the most recent add
\* call whose identifier was non-empty and whose request was present, whatever
\* the cancelled and completed sets hold; it returns null exactly when no such
\* call has happened yet.
C1_LatestIsLastStored ==
    /\ lastStored # NoCall => getLatest(Store) = lastStored.request
    /\ lastStored = NoCall => getLatest(Store) = Null

\* C1 witness: "a" then "b" were registered with different requests, "a" is
\* neither cancelled nor completed, and the latest request is the one of "b".
C1_Witness ==
    /\ lastStored # NoCall
    /\ lastStored.id = "b"
    /\ DOMAIN cache = {"a", "b"}
    /\ cache["a"] # cache["b"]
    /\ "a" \notin cancelledRequestIds \cup completedRequestIds
    /\ getLatest(Store) = lastStored.request

\* What cancel(id) leaves alone: the completed set, the stored requests, the
\* current pointer, and the cancelled status of every other identifier.
CancelFrame(id) ==
    /\ \A id2 \in NamedIds \ {id} : isCancelled(Store', id2) = isCancelled(Store, id2)
    /\ UNCHANGED <<completedRequestIds, cache, currentRequestId>>

\* C2 (as stated): cancel(id) makes isCancelled(id) true and changes nothing
\* else, for every identifier id.
C2_CancelOnlyMarksId ==
    [][\A id \in NamedIds :
          call' = [op |-> "cancel", id |-> id]
              => isCancelled(Store', id) = TRUE /\ CancelFrame(id)]_vars

\* C2 (amended): for every non-empty identifier id, cancel(id) makes
\* isCancelled(id) true and changes nothing else; cancel with an empty
\* identifier marks the current identifier (as cancel() does) and leaves the
\* completed set, the stored requests and the current pointer unchanged.
C2_CancelOnlyMarksNonEmptyId ==
    [][/\ \A id \in Ids :
              call' = [op |-> "cancel", id |-> id]
                  => isCancelled(Store', id) = TRUE /\ CancelFrame(id)
       /\ call' = [op |-> "cancel", id |-> Empty]
              => /\ cancelledRequestIds' = cancelledRequestIds \cup {currentRequestId}
                 /\ UNCHANGED <<completedRequestIds, cache, currentRequestId>>]_vars

\* C2 witness: cancel("a") has just been called while "b" is current, stored and
\* completed; "a" is cancelled and "b" is not.
C2_Witness ==
    /\ call = [op |-> "cancel", id |-> "a"]
    /\ isCancelled(Store, "a") = TRUE
    /\ isCancelled(Store, "b") = FALSE
    /\ currentRequestId = "b"
    /\ "b" \in completedRequestIds
    /\ DOMAIN cache = {"a", "b"}

\* Calling cancel (complete) twice gives the store that calling it once gives.
TwiceIsOnce(id) ==
    /\ cancel(cancel(Store, id), id) = cancel(Store, id)
    /\ complete(complete(Store, id), id) = complete(Store, id)

\* C3 (as stated): for every identifier, cancel and complete are idempotent
\* and isCancelled(id), isCompleted(id) are true afterwards.
C3_IdempotentAndMarked ==
    \A id \in NamedIds :
        /\ TwiceIsOnce(id)
        /\ isCancelled(cancel(cancel(Store, id), id), id) = TRUE
        /\ isCompleted(complete(complete(Store, id), id), id) = TRUE

\* C3 (amended): for every identifier, the empty one included, cancel and
\* complete are idempotent; for every non-empty identifier isCancelled(id),
\* isCompleted(id) are true afterwards.
C3_IdempotentAndNonEmptyMarked ==
    /\ \A id \in NamedIds : TwiceIsOnce(id)
    /\ \A id \in Ids :
        /\ isCancelled(cancel(cancel(Store, id), id), id) = TRUE
        /\ isCompleted(complete(complete(Store, id), id), id) = TRUE

\* C3 witness: cancel("a") has been called, "b" has been completed, and calling
\* either again changes nothing.
C3_Witness ==
    /\ call = [op |-> "cancel", id |-> "a"]
    /\ "a" \in cancelledRequestIds
    /\ "b" \in completedRequestIds
    /\ cancel(Store, "a") = Store
    /\ complete(Store, "b") = Store

\* C5 (as stated): right after any add(id, request) call the request is stored
\* under id and id is the current identifier.
C5_AddAlwaysStores ==
    call.op = "add" =>
        /\ currentRequestId = call.id
        /\ call.id \in DOMAIN cache
        /\ cache[call.id] = call.request

\* C5 (amended): add(id, request) with a non-empty id and a present request
\* stores the request under id and makes id the current identifier, whatever
\* the store held; with an empty or absent id, or an absent request, it
\* changes nothing.
C5_AddStoresWhenTruthy ==
    [][\A id \in IdArgs, request \in RequestArgs :
          call' = [op |-> "add", id |-> id, request |-> request]
              => IF id \in Ids /\ request \in Requests
                 THEN /\ currentRequestId' = id
                      /\ cache' = MapSet(cache, id, request)
                      /\ UNCHANGED <<cancelledRequestIds, completedRequestIds>>
                 ELSE UNCHANGED storeVars]_vars

\* C5 witness: add("a", "r2") has just replaced an earlier request of "a" and
\* taken the current pointer back from "b".
C5_Witness ==
    /\ call = [op |-> "add", id |-> "a", request |-> "r2"]
    /\ currentRequestId = "a"
    /\ DOMAIN cache = {"a", "b"}
    /\ cache["a"] = "r2"
    /\ "a" \in cancelledRequestIds

(***************************************************************************)
(* Claims about prepareOptions, checked under SpecOptions.                 *)
(***************************************************************************)

\* C6: when no two keys of the request's headers are equal ignoring case, no
\* two keys of the built options' headers are equal ignoring case.
C6_NoDuplicateKeys ==
    pc = "built" /\ NoCaseDuplicates(httpRequest.headers)
        => NoCaseDuplicates(options.headers)

RECURSIVE Tokens(_)
\* The whitespace-separated tokens of a value: what lies between its runs of
\* whitespace (the empty token before leading and after trailing whitespace).
Tokens(s) ==
    LET stops == {i \in 1..Len(s) : s[i] = Space}
    IN  IF stops = {} THEN <<s>>
        ELSE LET first == CHOOSE i \in stops : \A j \in stops : i <= j
                 later == {i \in first..Len(s) : s[i] # Space}
                 next == IF later = {} THEN Len(s) + 1
                         ELSE CHOOSE i \in later : \A j \in later : i <= j
             IN  <<SubSeq(s, 1, first - 1)>> \o Tokens(SubSeq(s, next, Len(s)))

RECURSIVE SingleSpaced(_)
\* Tokens joined by single spaces.
SingleSpaced(tokens) ==
    IF Len(tokens) = 1 THEN tokens[1]
    ELSE tokens[1] \o <<Space>> \o SingleSpaced(Tail(tokens))

KeyCount(headers, name) ==
    Cardinality({i \in 1..Len(headers) : toLowerCase(headers[i].name) = toLowerCase(name)})

\* C8: the default-header merge leaves every key and value that was there
\* unchanged, adds no second key for a default header whose name equals,
\* ignoring case, a name that was there, and adds a Host header only when
\* the URL starts with "/".
C8_MergeKeepsRequestHeaders ==
    pc = "built" =>
        LET before == headersBeforeMerge
            after == options.headers
        IN  /\ Len(before) <= Len(after)
            /\ \A i \in 1..Len(before) : after[i] = before[i]
            /\ \A d \in 1..Len(settings.defaultHeaders) :
                  KeyCount(before, settings.defaultHeaders[d].name) > 0 =>
                      KeyCount(after, settings.defaultHeaders[d].name)
                          = KeyCount(before, settings.defaultHeaders[d].name)
            /\ \A j \in (Len(before) + 1)..Len(after) :
                  toLowerCase(after[j].name) = "host" => UrlFirstChar(httpRequest.url) = "/"

\* C8 witness: the request's `content-type: text` has survived a default
\* `Content-Type: json`, and the default Host was added to a bare-path URL.
C8_Witness ==
    /\ pc = "built"
    /\ httpRequest.url = BarePath
    /\ httpRequest.headers = <<Header("content-type", <<"text">>)>>
    /\ settings.defaultHeaders
           = <<Header("Content-Type", <<"json">>), Header("Host", <<"api">>)>>
    /\ options.headers = <<Header("content-type", <<"text">>), Header("Host", <<"api">>)>>

\* Exact-equality exclusion: some entry, lower-cased, is the request's
\* lower-cased host name, or is `hostname:port` with the request's explicit port.
ExactExclusion(requestUrl, entries) ==
    LET parsed == UrlParse(requestUrl)
    IN  /\ parsed.hostname # NullStr
        /\ \E i \in 1..Len(entries) :
              \/ StrLower(entries[i]) = parsed.hostname
              \/ /\ parsed.port # NullStr
                 /\ StrLower(entries[i]) = parsed.hostname \o <<":">> \o parsed.port

\* C9: ignoreProxy(url, entries) is true exactly when an entry equals the
\* host name, or equals `hostname:port` for a request with that explicit port.
C9_ExclusionIsExactEquality ==
    proxyIgnored.called =>
        proxyIgnored.result = ExactExclusion(httpRequest.url, settings.excludeHostsForProxy)

(***************************************************************************)
(* Claims about send, checked under SpecSend.                              *)
(***************************************************************************)

\* What the call of send settles to, given what the body stream and the
\* transport delivered.
ExpectedOutcome ==
    IF wire.stream = "error" THEN Rejected("stream")
    ELSE IF wire.reply.kind = "error" THEN Rejected("transport")
    ELSE Materialize(wire.reply, settings)

\* C4: cancelling the request in flight, in whatever phase of the send, does
\* not abort it and does not change its outcome: a send that has not settled
\* stays pending, and a settled one has the outcome that the body stream and
\* the transport alone decide, never a cancellation error.
C4_CancelIsAdvisory ==
    /\ pc \in {"start", "drain", "import", "built", "transport"} => outcome = NoOutcome
    /\ pc = "done" =>
          /\ outcome = ExpectedOutcome
          /\ outcome.kind = "rejected" => outcome.error \in {"stream", "transport"}

\* C4 witness: the request was cancelled in every phase of its send, and the
\* send returned the response.
C4_Witness ==
    /\ pc = "done"
    /\ cancelSeen = {Phase("start"), Phase("drain"), Phase("transport"), Phase("done")}
    /\ isCancelled(Store, inflightId)
    /\ outcome.kind = "response"

\* Decoding the body with the declared charset raises an error.
DeclaredCharsetFails(response) ==
    /\ TruthyStr(response.contentType)
    /\ Truthy(MimeCharset(response.contentType))
    /\ IconvDecode(response.body, MimeCharset(response.contentType)).threw

\* C10: whenever the transport delivered a response, send returns a response
\* with a defined body string; when the declared charset cannot be decoded,
\* the body is the UTF-8 decoding of the buffer (with the escapes replaced
\* when decodeEscapedUnicodeCharacters is set).
C10_DecodeFallsBackToUtf8 ==
    pc = "done" /\ wire.reply.kind = "response" =>
        /\ outcome.kind = "response"
        /\ outcome.body # UndefinedBody
        /\ DeclaredCharsetFails(wire.reply) =>
              outcome.body = IF settings.decodeEscapedUnicodeCharacters
                             THEN decodeEscapedUnicodeCharacters(Utf8Decode(wire.reply.body))
                             ELSE Utf8Decode(wire.reply.body)

\* C10 witness: charset=x-unknown with decodeEscapedUnicodeCharacters set; the
\* bytes of the escape A have come out as "A".
C10_Witness ==
    /\ pc = "done"
    /\ settings.decodeEscapedUnicodeCharacters
    /\ wire.reply.kind = "response"
    /\ wire.reply.contentType = <<"text/plain", ";", "charset", "=", "x-unknown">>
    /\ wire.reply.body = <<92, 117, 48, 48, 52, 49>>
    /\ outcome.kind = "response"
    /\ outcome.body = <<65>>

(***************************************************************************)
(* Claims about the client certificate, checked under SpecOptions.         *)
(***************************************************************************)

\* The configured path of the artifact resolves to an existing file.
ResolvesToFile(a) ==
    /\ certEnv.fs[a] = "file"
    /\ \/ certEnv.paths[a] = "absolute"
       \/ certEnv.paths[a] = "relative"
          /\ (Truthy(certEnv.rootPath) \/ Truthy(certEnv.currentFile))

\* The artifact is configured for the host of the request.
ConfiguredFor(a) ==
    /\ TruthyOrNull(UrlParse(httpRequest.url).host)
    /\ UrlParse(httpRequest.url).host \in certEnv.hosts
    /\ Truthy(certEnv.paths[a])

\* C11: for each of cert, key and pfx configured for the host of the request
\* whose path does not resolve to an existing file, once the certificate step
\* has run no error is raised, the artifact is left out, a warning is shown
\* for it, and the artifacts that do resolve are attached.
C11_MissingArtifactWarns ==
    certificate.called =>
        \A a \in {"cert", "key", "pfx"} :
            ConfiguredFor(a) /\ ~ResolvesToFile(a) =>
                /\ outcome.kind # "rejected"
                /\ certificate.material[a] = Undefined
                /\ \E i \in 1..Len(certificate.warnings) : certificate.warnings[i] = a
                /\ \A b \in {"cert", "key", "pfx"} :
                      ConfiguredFor(b) /\ ResolvesToFile(b) =>
                          certificate.material[b] = "buffer"

(***************************************************************************)
(* Claims about the saved text, checked under SpecSave.                    *)
(***************************************************************************)

\* C12: the saved text is the status line `HTTP/<version> <status>
\* <message><EOL>`, then for the k-th header of the mapping the line
\* `<name>: <value><EOL>` with the name as it is, then `<EOL><body>` exactly
\* when the body is not empty; with an empty body the text ends with the
\* last header line.
C12_SavedTextLayout ==
    savedFile # NotSaved =>
        LET r == storedResponse
            n == Len(r.headers)
            end == 7 + 5 * n
        IN  /\ SubSeq(savedFile, 1, 7)
                   = <<"HTTP/", r.httpVersion, Space, r.statusCode, Space, r.statusMessage, EOL>>
            /\ \A k \in 1..n :
                  SubSeq(savedFile, 7 + 5 * (k - 1) + 1, 7 + 5 * k)
                      = <<r.headers[k].name, ":", Space, r.headers[k].value, EOL>>
            /\ r.body = << >> => Len(savedFile) = end
            /\ r.body # << >> =>
                  /\ Len(savedFile) = end + 1 + Len(r.body)
                  /\ savedFile[end + 1] = EOL
                  /\ SubSeq(savedFile, end + 2, Len(savedFile)) = r.body

\* C12 witness: status 200 OK, version 1.1, the header content-type:
\* text/plain and the body hi are saved as
\* HTTP/1.1 200 OK<EOL>content-type: text/plain<EOL><EOL>hi
C12_Witness ==
    /\ storedResponse = [httpVersion |-> "1.1", statusCode |-> "200", statusMessage |-> "OK",
                         headers |-> <<Header("content-type", "text/plain")>>,
                         body |-> <<"hi">>]
    /\ savedFile = <<"HTTP/", "1.1", Space, "200", Space, "OK", EOL,
                     "content-type", ":", Space, "text/plain", EOL, EOL, "hi">>

(***************************************************************************)
(* Claims about the default identifier and the lifetime of the flags,      *)
(* checked under Spec.                                                     *)
(***************************************************************************)

\* register(id1), cancel(), register(id2) from the store S.
CancelThenRegister(S, id1, id2) ==
    add(cancel(add(S, id1, "r1"), Null), id2, "r2")

\* register(id1), complete(id1), register(id2) from the store S.
CompleteThenRegister(S, id1, id2) ==
    add(complete(add(S, id1, "r1"), id1), id2, "r2")

\* C13: cancel() and isCompleted() without an identifier bind to the
\* identifier current at the moment of the call.  The identifiers that report
\* as cancelled are those cancel was called with and those that were current
\* when it was called without one, never one registered later; isCompleted()
\* is isCompleted of the current identifier.  From every store where id2 is
\* not yet cancelled (not yet completed): after register(id1), cancel(),
\* register(id2), id1 is cancelled and id2 is not; after register(id1),
\* complete(id1), register(id2), isCompleted() is false and isCompleted(id1)
\* is true.
C13_DefaultBindsAtCall ==
    /\ \A id \in Ids :
          isCancelled(Store, id) = (id \in cancelLog.named \cup cancelLog.bound)
    /\ currentRequestId \in Ids =>
          isCompleted(Store, Null) = isCompleted(Store, currentRequestId)
    /\ currentRequestId \notin Ids => isCompleted(Store, Null) = FALSE
    /\ \A id1, id2 \in Ids :
          id1 # id2 =>
              /\ ~isCancelled(Store, id2) =>
                    /\ isCancelled(CancelThenRegister(Store, id1, id2), id1) = TRUE
                    /\ isCancelled(CancelThenRegister(Store, id1, id2), id2) = FALSE
              /\ ~isCompleted(Store, id2) =>
                    /\ isCompleted(CompleteThenRegister(Store, id1, id2), Null) = FALSE
                    /\ isCompleted(CompleteThenRegister(Store, id1, id2), id1) = TRUE

\* C13 witness: cancel() was called before any registration and again while
\* "a" was current; "b" was registered afterwards and is current: "a" reports
\* as cancelled, "b" does not, and isCompleted() is false while "a" is completed.
C13_Witness ==
    /\ cancelLog = [named |-> {}, bound |-> {Undefined, "a"}]
    /\ call = [op |-> "add", id |-> "b", request |-> "r2"]
    /\ currentRequestId = "b"
    /\ isCancelled(Store, "a") = TRUE
    /\ isCancelled(Store, "b") = FALSE
    /\ isCompleted(Store, "a") = TRUE
    /\ isCompleted(Store, Null) = FALSE

\* C14: no step clears a flag or a stored request: an identifier that is
\* cancelled stays cancelled, one that is completed stays completed, and one
\* that has a stored request keeps having one.
C14_FlagsAreNeverCleared ==
    [][\A id \in Ids :
          /\ isCancelled(Store, id) => isCancelled(Store', id)
          /\ isCompleted(Store, id) => isCompleted(Store', id)
          /\ id \in DOMAIN cache => id \in DOMAIN cache']_vars

\* C14 witness: "a" is both cancelled and completed, and has just been
\* registered again.
C14_Witness ==
    /\ call = [op |-> "add", id |-> "a", request |-> "r2"]
    /\ cache["a"] = "r2"
    /\ isCancelled(Store, "a") = TRUE
    /\ isCompleted(Store, "a") = TRUE

====
